---- MODULE Spec2Model ----
(***************************************************************************)
(* Model of errbot's BotPluginManager (src/errbot/plugin_manager.py).      *)
(*                                                                         *)
(* The manager drives every discovered plugin through a guarded            *)
(* activate / deactivate life cycle and keeps a persisted blacklist and    *)
(* configuration store.  Every public method of the manager is one action; *)
(* the hooks of the plugin framework and of the plugins (configure,        *)
(* activate, deactivate, route, ...) are collaborators: what they do       *)
(* (return or raise) belongs to the plugin a scan discovered, and is       *)
(* drawn with its descriptor in the initial state.                         *)
(***************************************************************************)
EXTENDS Integers, Sequences, FiniteSets, TLC

\* ------------------------------------------------------------------ bounds

\* Number of dotted components of every version string of the model.
VersionLen == 2
\* Longest list of registered template paths the model follows.
MaxTemplatePath == 2
\* Longest path_list a caller passes to update_plugin_places.
MaxPathList == 2

\* ------------------------------------------------------------- value sets

PluginNames == {"p1", "p2"}
\* Names a caller may pass: the discovered plugins and one nobody discovered.
Names == PluginNames \cup {"ghost"}

None == "None"
ConfigValues == {"ok", "bad"}
ConfigOpt == ConfigValues \cup {None}

\* [Python] Version of the .plug descriptor; "1" is an invalid value and
\* "NoSection" a descriptor without a [Python] section.
PythonVersions == {"2", "2+", "3", "1", "NoSection"}

\* The text of one dotted component, as its decimal digits: "2" and "10".
Components == {<<2>>, <<1, 0>>}
VersionStrings == [1..VersionLen -> Components]
\* min_err_version / max_err_version unset (None, or the empty string).
NoVersion == <<>>
VersionOpt == VersionStrings \cup {NoVersion}

Range(s) == {s[i] : i \in DOMAIN s}

\* Directories: the core plugins, the operator's extra directory and one
\* directory per repository name under plugin_dir ("lib" is a directory the
\* module search path holds for other reasons).  RepoOrder is the order in
\* which the registry yields its keys.
RepoNames == {"foo", "bar"}
RepoOrder == <<"foo", "bar">>
ScanDirs == {"core", "extra"} \cup RepoNames

\* Lines of a requirements.txt, stripped: package names and the empty line.
Packages == {"pa", "pb"}
BlankLine == ""
\* A directory's requirements.txt: whether the file is there, and its lines.
Manifest(lines) == [isfile |-> TRUE, lines |-> lines]
NoManifest == [isfile |-> FALSE, lines |-> <<>>]

\* Source references: URLs, by their host, the last part of their path and
\* its ending, and the aliases of the table of public repositories.
Url(host, last, ending) == [host |-> host, last |-> last, ending |-> ending]
Urls == {Url("a", "foo", ".git"), Url("b", "foo", ".git"), Url("a", "bar", ""),
         Url("a", "foo", "tar.gz")}
\* An alias is a reference without host or ending.
Aliases == {Url("", "err-foo", "")}
RepoRefs == Urls \cup Aliases

\* -------------------------------------------------------------- variables

VARIABLES
    all_plugins,     \* getAllPlugins(): the discovered plugins, in order
    details,         \* per plugin: descriptor and declared constraints
    hooks,           \* per plugin: what the plugin's own hooks do when called
    PY3,             \* the running interpreter is Python 3 (PY2 otherwise)
    VERSION,         \* the host's version string
    is_activated,    \* plugin_object.is_activated, per plugin
    activated,       \* the attribute pta_item.activated, per plugin
    config,          \* plugin_object.config, per plugin
    template_path,   \* the registered template paths (a list)
    routes,          \* plugins registered with the message router
    store_configs,   \* persisted self[CONFIGS]
    bl_plugins,      \* persisted self[BL_PLUGINS] (a list)
    last,            \* the last operation and what it returned
    attempts,        \* calls of activate_plugin_with_version_check it made
    pre,             \* the observed state before the last operation
    trip,            \* an operation and its inverse in a row: where it started
    threads,         \* per calling thread: the store operation it is in
    repos,           \* persisted self[REPOS]: repository name -> URL
    plugin_dir,      \* the directories that exist under self.plugin_dir
    sys_path,        \* sys.path (a list)
    requirements,    \* per directory: the lines of its requirements.txt
    installed,       \* the distributions pkg_resources finds
    setuptools,      \* pkg_resources can be imported
    bot_config,      \* BOT_EXTRA_PLUGIN_DIR and AUTOINSTALL_DEPS
    scan,            \* the last call of update_plugin_places and its result
    install          \* the last call of install_repo and its result

\* The plugins' life cycle and the store of configurations and blacklist.
lifeVars == <<all_plugins, details, hooks, PY3, VERSION, is_activated, activated, config,
              template_path, routes, store_configs, bl_plugins, last, attempts, pre, trip,
              threads>>
\* Repositories, scans and their environment.
repoVars == <<repos, plugin_dir, sys_path, requirements, installed, setuptools,
              bot_config, scan, install>>

vars == <<lifeVars, repoVars>>

\* ------------------------------------------------------------ exceptions

NoExc == [type |-> "none", msg |-> ""]
Exc(t, m) == [type |-> t, msg |-> m]

\* ------------------------------------------------------- version compare

RECURSIVE IntOf(_)
\* int(el) of one component's text.
IntOf(digits) ==
    IF digits = <<>> THEN 0
    ELSE IntOf(SubSeq(digits, 1, Len(digits) - 1)) * 10 + digits[Len(digits)]

\* version2array: the dotted string as an array of integers.
version2array(version) == [i \in 1..Len(version) |-> IntOf(version[i])]

RECURSIVE ListLess(_, _)
\* Python's a < b on two lists of integers.
ListLess(a, b) ==
    IF a = <<>> THEN b # <<>>
    ELSE IF b = <<>> THEN FALSE
    ELSE IF a[1] # b[1] THEN a[1] < b[1]
    ELSE ListLess(Tail(a), Tail(b))

ListGreater(a, b) == ListLess(b, a)

\* ------------------------------------------------ collaborators' outcomes

\* What one call of a hook that may raise does: return, raise before its
\* effect, or raise after it.
HookOutcomes == {"ok", "raise", "raise_late"}
\* Where the activation of a plugin fails: nowhere, or in the hook named
\* (activate_late: in the activation hook, after it set is_activated).
Faults == {"none", "configure", "populate_doc", "activate", "activate_late", "route"}
\* What the hooks of one plugin do: where its activation fails, and what its
\* deactivation hook does.
Hooks == [fault : Faults, deactivate : HookOutcomes]

Step(s, ok) == [step |-> s, ok |-> ok]

\* The part of the manager's state an activation or deactivation touches.
Live == [is_activated |-> is_activated, activated |-> activated, config |-> config,
         template_path |-> template_path, routes |-> routes]

\* ----------------------------------------------------------- collaborators

getPluginByName(name) == IF name \in Range(all_plugins) THEN name ELSE None

get_all_active_plugin_names(st) ==
    SelectSeq(all_plugins, LAMBDA p : st.is_activated[p])

get_all_plugin_names == all_plugins

get_blacklisted_plugin == bl_plugins

is_plugin_blacklisted(name) == name \in Range(get_blacklisted_plugin)

get_plugin_configuration(name) ==
    IF name \in DOMAIN store_configs THEN store_configs[name] ELSE None

\* templating.add_plugin_templates_path: the path joins the list.
add_plugin_templates_path(tp, path) == Append(tp, path)

\* templating.remove_plugin_templates_path: the first occurrence leaves the
\* list; nothing happens when the path is not registered.
remove_plugin_templates_path(tp, path) ==
    IF path \notin Range(tp) THEN tp
    ELSE LET i == CHOOSE k \in DOMAIN tp :
                      tp[k] = path /\ \A j \in 1..(k - 1) : tp[j] # path
         IN SubSeq(tp, 1, i - 1) \o SubSeq(tp, i + 1, Len(tp))

\* wsview.route: the plugin's handlers are registered with the router.
route(rt, name) == rt \cup {name}

\* yapsy's activatePluginByName: plugin_object.activate(), which sets
\* is_activated unless it raises before doing so.
activatePluginByName(st, name, outcome) ==
    [st EXCEPT !.is_activated[name] = IF outcome = "raise" THEN @ ELSE TRUE]

\* yapsy's deactivatePluginByName: plugin_object.deactivate(), which clears
\* is_activated unless it raises before doing so.
deactivatePluginByName(st, name, outcome) ==
    [st EXCEPT !.is_activated[name] = IF outcome = "raise" THEN @ ELSE FALSE]

\* ------------------------------------- activate_plugin_with_version_check

\* Lines 146-174: the declared interpreter admits the running one.
PythonGate(name) ==
    LET python_version ==
            IF details[name].python = "NoSection" THEN "2" ELSE details[name].python
    IN  /\ python_version \in {"2", "2+", "3"}
        /\ ~(python_version = "2" /\ PY3)
        /\ ~(python_version = "3" /\ ~PY3)

\* VersionGate with the maximal version compared the wrong way round.
VersionGate_max_reversed(min_version, max_version, current) ==
    LET current_version == version2array(current)
    IN  IF min_version # NoVersion
           /\ ListGreater(version2array(min_version), current_version)
        THEN "minimal"
        ELSE IF max_version # NoVersion
                /\ ListGreater(version2array(max_version), current_version)
        THEN "maximal"
        ELSE "ok"

\* Lines 176-190: "ok", or the bound the host's version violates.
VersionGate(min_version, max_version, current) ==
    LET current_version == version2array(current)
    IN  IF min_version # NoVersion
           /\ ListGreater(version2array(min_version), current_version)
        THEN "minimal"
        ELSE IF max_version # NoVersion
                /\ ListLess(version2array(max_version), current_version)
        THEN "maximal"
        ELSE "ok"

\* ConfigurationStep without line 200: the configuration is not cleared.
ConfigurationStep_not_cleared(st, name, cfg) ==
    LET checked == details[name].template /\ cfg # None
        rejected == checked /\ cfg = "bad"
        hook == ~rejected /\ hooks[name].fault = "configure"
        steps == (IF checked THEN <<Step("check_configuration", ~rejected)>> ELSE <<>>)
                 \o (IF rejected THEN <<>> ELSE <<Step("configure", ~hook)>>)
    IN  IF rejected \/ hook
        THEN [st |-> IF rejected THEN st ELSE [st EXCEPT !.config[name] = cfg],
              cause |-> IF rejected THEN Exc("ValidationException", "check_configuration")
                        ELSE Exc("Exception", "configure"),
              steps |-> steps]
        ELSE [st |-> [st EXCEPT !.config[name] = cfg], cause |-> NoExc, steps |-> steps]

\* Lines 192-201: check_configuration and the configure hook.  cause is the
\* exception the step caught, NoExc when it passed.
ConfigurationStep(st, name, cfg) ==
    LET checked == details[name].template /\ cfg # None
        rejected == checked /\ cfg = "bad"
        hook == ~rejected /\ hooks[name].fault = "configure"
        steps == (IF checked THEN <<Step("check_configuration", ~rejected)>> ELSE <<>>)
                 \o (IF rejected THEN <<>> ELSE <<Step("configure", ~hook)>>)
    IN  IF rejected \/ hook
        THEN [st |-> [st EXCEPT !.config[name] = None],
              cause |-> IF rejected THEN Exc("ValidationException", "check_configuration")
                        ELSE Exc("Exception", "configure"),
              steps |-> steps]
        ELSE [st |-> [st EXCEPT !.config[name] = cfg], cause |-> NoExc, steps |-> steps]

\* Lines 204-213: the framework's activation hook and route, with the
\* rollback of a failure.
ActivationStep(st, name) ==
    LET sc == hooks[name]
        hook == IF sc.fault = "activate" THEN "raise"
                ELSE IF sc.fault = "activate_late" THEN "raise_late" ELSE "ok"
        s1 == activatePluginByName(st, name, hook)
    IN  IF hook = "ok" /\ sc.fault # "route"
        THEN [st |-> [s1 EXCEPT !.routes = route(@, name)],
              exc |-> NoExc, cause |-> NoExc,
              steps |-> <<Step("activatePluginByName", TRUE), Step("route", TRUE)>>]
        ELSE LET cause == IF hook = "ok" THEN Exc("Exception", "route")
                          ELSE Exc("Exception", "activate")
                 s2 == [s1 EXCEPT !.activated[name] = "False",
                                  !.template_path = remove_plugin_templates_path(@, name)]
                 s3 == deactivatePluginByName(s2, name, sc.deactivate)
             IN  [st |-> s3,
                  exc |-> IF sc.deactivate = "ok" THEN cause
                          ELSE Exc("Exception", "deactivate"),
                  cause |-> cause,
                  steps |-> (IF hook = "ok"
                             THEN <<Step("activatePluginByName", TRUE), Step("route", FALSE)>>
                             ELSE <<Step("activatePluginByName", FALSE)>>)
                            \o <<Step("remove_plugin_templates_path", TRUE),
                                 Step("deactivatePluginByName", sc.deactivate = "ok")>>]

\* Lines 140-213.  The result holds the state after the call and the record
\* of the attempt: ret is "obj" (the plugin object is returned), "None" or
\* "raised"; exc is the exception that reaches the caller and cause the one
\* first raised inside.
activate_plugin_with_version_check(st, name, cfg) ==
    LET Att(ret, exc, cause, steps) ==
            [name |-> name, config |-> cfg, ret |-> ret, exc |-> exc,
             cause |-> cause, steps |-> steps]
    IN
    IF getPluginByName(name) = None
    THEN [st |-> st, att |-> Att("None", NoExc, NoExc, <<>>)]
    ELSE IF ~PythonGate(name)
    THEN [st |-> st, att |-> Att("None", NoExc, NoExc, <<Step("python", FALSE)>>)]
    ELSE LET gate == VersionGate(details[name].min, details[name].max, VERSION)
         IN
         IF gate # "ok"
         THEN [st |-> st,
               att |-> Att("raised", Exc("IncompatiblePluginException", gate),
                           Exc("IncompatiblePluginException", gate),
                           <<Step("python", TRUE), Step("version", FALSE)>>)]
         ELSE LET c == ConfigurationStep(st, name, cfg)
                  g == <<Step("python", TRUE), Step("version", TRUE)>> \o c.steps
              IN
              IF c.cause # NoExc
              THEN [st |-> c.st,
                    att |-> Att("raised",
                                Exc("PluginConfigurationException", c.cause.msg),
                                c.cause, g)]
              ELSE LET s1 == [c.st EXCEPT
                                  !.template_path = add_plugin_templates_path(@, name)]
                       g1 == g \o <<Step("add_plugin_templates_path", TRUE)>>
                   IN
                   IF hooks[name].fault = "populate_doc"
                   THEN [st |-> s1,
                         att |-> Att("raised", Exc("Exception", "populate_doc"),
                                     Exc("Exception", "populate_doc"),
                                     g1 \o <<Step("populate_doc", FALSE)>>)]
                   ELSE LET a == ActivationStep(s1, name)
                        IN  [st |-> a.st,
                             att |-> Att(IF a.cause = NoExc THEN "obj" ELSE "raised",
                                         a.exc, a.cause,
                                         g1 \o <<Step("populate_doc", TRUE)>> \o a.steps)]

\* ------------------------------------------------------ the other methods

\* activate_plugin without lines 371-372: an active plugin is activated again.
activate_plugin_without_active_check(st, name) ==
    IF name \notin Range(get_all_plugin_names)
    THEN [st |-> st, status |-> "I don't know this plugin",
          attempts |-> <<>>, connect |-> FALSE]
    ELSE LET r == activate_plugin_with_version_check(
                      st, name, get_plugin_configuration(name))
         IN  IF r.att.ret = "raised"
             THEN [st |-> r.st, status |-> "failed to start",
                   attempts |-> <<r.att>>, connect |-> FALSE]
             ELSE [st |-> r.st, status |-> "Plugin activated",
                   attempts |-> <<r.att>>, connect |-> TRUE]

\* activate_plugin without lines 373-374: an unknown name goes on to line
\* 375, and line 379 raises on the plugin object that is not there.
activate_plugin_without_known_check(st, name) ==
    IF name \in Range(get_all_active_plugin_names(st))
    THEN [st |-> st, status |-> "Plugin already in active list",
          attempts |-> <<>>, connect |-> FALSE]
    ELSE LET r == activate_plugin_with_version_check(
                      st, name, get_plugin_configuration(name))
         IN  IF r.att.ret = "raised"
             THEN [st |-> r.st, status |-> "failed to start",
                   attempts |-> <<r.att>>, connect |-> FALSE]
             ELSE IF name \notin Range(get_all_plugin_names)
             THEN [st |-> r.st, status |-> "raised",
                   attempts |-> <<r.att>>, connect |-> FALSE]
             ELSE [st |-> r.st, status |-> "Plugin activated",
                   attempts |-> <<r.att>>, connect |-> TRUE]

\* Lines 369-380.  connect tells whether callback_connect was called.
activate_plugin(st, name) ==
    IF name \in Range(get_all_active_plugin_names(st))
    THEN [st |-> st, status |-> "Plugin already in active list",
          attempts |-> <<>>, connect |-> FALSE]
    ELSE IF name \notin Range(get_all_plugin_names)
    THEN [st |-> st, status |-> "I don't know this plugin",
          attempts |-> <<>>, connect |-> FALSE]
    ELSE LET r == activate_plugin_with_version_check(
                      st, name, get_plugin_configuration(name))
         IN  IF r.att.ret = "raised"
             THEN [st |-> r.st, status |-> "failed to start",
                   attempts |-> <<r.att>>, connect |-> FALSE]
             ELSE [st |-> r.st, status |-> "Plugin activated",
                   attempts |-> <<r.att>>, connect |-> TRUE]

\* Lines 215-224.  raised tells whether the hook's exception is re-raised.
deactivate_plugin_by_name(st, name) ==
    LET s1 == [st EXCEPT !.template_path = remove_plugin_templates_path(@, name)]
        outcome == hooks[name].deactivate
        s2 == deactivatePluginByName(s1, name, outcome)
    IN  IF outcome = "ok"
        THEN [st |-> s2, raised |-> FALSE]
        ELSE [st |-> [s2 EXCEPT !.template_path = add_plugin_templates_path(@, name)],
              raised |-> TRUE]

\* Lines 382-386.
deactivate_plugin(st, name) ==
    IF name \notin Range(get_all_active_plugin_names(st))
    THEN [st |-> st, status |-> "Plugin not in active list"]
    ELSE LET r == deactivate_plugin_by_name(st, name)
         IN  [st |-> r.st,
              status |-> IF r.raised THEN "raised" ELSE "Plugin deactivated"]

\* Lines 226-240: an active plugin is deactivated first; the module is then
\* imported again and the plugin object given its new class, which touches
\* nothing the manager keeps.  An unknown name raises at line 235.
reload_plugin_by_name(st, name) ==
    LET r == IF name \in Range(get_all_active_plugin_names(st))
             THEN deactivate_plugin_by_name(st, name)
             ELSE [st |-> st, raised |-> FALSE]
    IN  [st |-> r.st,
         status |-> IF r.raised \/ getPluginByName(name) = None
                    THEN "raised" ELSE "None"]

RECURSIVE DeactivateEach(_, _)
\* The loop of lines 289-290 over the names that were active at its start;
\* a hook that raises ends it.
DeactivateEach(st, names) ==
    IF names = <<>> THEN [st |-> st, raised |-> FALSE]
    ELSE LET outcome == hooks[Head(names)].deactivate
             s1 == deactivatePluginByName(st, Head(names), outcome)
         IN  IF outcome # "ok"
             THEN [st |-> s1, raised |-> TRUE]
             ELSE DeactivateEach(s1, Tail(names))

\* Lines 288-290.
deactivate_all_plugins(st) ==
    DeactivateEach(st, get_all_active_plugin_names(st))

\* One entry of the text activate_non_started_plugins returns.
Notice(name) == [kind |-> "Notice", name |-> name]
Error(name) == [kind |-> "Error", name |-> name]

\* ActivateOne without lines 355-358: the blacklist is not consulted.
ActivateOne_blacklist_ignored(acc, name) ==
    IF ~acc.st.is_activated[name]
    THEN LET r == activate_plugin_with_version_check(
                      acc.st, name, get_plugin_configuration(name))
         IN  [st |-> r.st,
              errors |-> IF r.att.ret = "raised"
                         THEN Append(acc.errors, Error(name)) ELSE acc.errors,
              attempts |-> Append(acc.attempts, r.att)]
    ELSE acc

\* Lines 354-364: the body of the loop, for one plugin.
ActivateOne(acc, name) ==
    IF is_plugin_blacklisted(name)
    THEN [acc EXCEPT !.errors = Append(@, Notice(name))]
    ELSE IF ~acc.st.is_activated[name]
    THEN LET r == activate_plugin_with_version_check(
                      acc.st, name, get_plugin_configuration(name))
         IN  [st |-> r.st,
              errors |-> IF r.att.ret = "raised"
                         THEN Append(acc.errors, Error(name)) ELSE acc.errors,
              attempts |-> Append(acc.attempts, r.att)]
    ELSE acc

RECURSIVE ActivateEach(_, _)
ActivateEach(acc, plugins) ==
    IF plugins = <<>> THEN acc
    ELSE ActivateEach(ActivateOne(acc, Head(plugins)), Tail(plugins))

\* Lines 349-367.
activate_non_started_plugins(st) ==
    ActivateEach([st |-> st, errors |-> <<>>, attempts |-> <<>>], all_plugins)

\* blacklist_plugin without lines 312-314: the name is appended again.
blacklist_plugin_unchecked(bl, name) ==
    [bl |-> bl \o <<name>>, status |-> "Plugin is now blacklisted"]

\* Lines 311-317.
blacklist_plugin(bl, name) ==
    IF name \in Range(bl)
    THEN [bl |-> bl, status |-> "Plugin is already blacklisted"]
    ELSE [bl |-> bl \o <<name>>, status |-> "Plugin is now blacklisted"]

\* Lines 319-327; l.remove(name) takes the first occurrence out.
unblacklist_plugin(bl, name) ==
    IF name \notin Range(bl)
    THEN [bl |-> bl, status |-> "Plugin is not blacklisted"]
    ELSE LET i == CHOOSE k \in DOMAIN bl :
                      bl[k] = name /\ \A j \in 1..(k - 1) : bl[j] # name
         IN  [bl |-> SubSeq(bl, 1, i - 1) \o SubSeq(bl, i + 1, Len(bl)),
              status |-> "Plugin removed from blacklist"]

\* Lines 336-339.
set_plugin_configuration(configs, name, obj) == [configs EXCEPT ![name] = obj]

\* ---------------------------------------------------------------- actions

\* What the claims observe of the manager.
Observed == [is_activated |-> is_activated, config |-> config,
             template_path |-> template_path, routes |-> routes,
             store_configs |-> store_configs, bl_plugins |-> bl_plugins]

Last(op, name, status) ==
    [op |-> op, name |-> name, status |-> status, errors |-> <<>>, connect |-> FALSE]

NoTrip == [op |-> "none", name |-> None, before |-> None]

\* The state of the plugins after an operation.
SetLive(st) ==
    /\ Len(st.template_path) <= MaxTemplatePath
    /\ is_activated' = st.is_activated
    /\ activated' = st.activated
    /\ config' = st.config
    /\ template_path' = st.template_path
    /\ routes' = st.routes

Static ==
    /\ UNCHANGED <<all_plugins, details, hooks, PY3, VERSION, threads>>
    /\ UNCHANGED repoVars

ActivatePluginWithVersionCheck ==
    \E name \in Names, cfg \in ConfigOpt :
        LET r == activate_plugin_with_version_check(Live, name, cfg)
        IN  /\ SetLive(r.st)
            /\ last' = Last("activate_plugin_with_version_check", name, r.att.ret)
            /\ attempts' = <<r.att>>
            /\ pre' = Observed
            /\ trip' = NoTrip
            /\ Static
            /\ UNCHANGED <<store_configs, bl_plugins>>

ActivatePlugin ==
    \E name \in Names :
        LET r == activate_plugin(Live, name)
        IN  /\ SetLive(r.st)
            /\ last' = [Last("activate_plugin", name, r.status)
                            EXCEPT !.connect = r.connect]
            /\ attempts' = r.attempts
            /\ pre' = Observed
            /\ trip' = IF r.status = "Plugin activated"
                       THEN [op |-> "activate_plugin", name |-> name,
                             before |-> Observed]
                       ELSE NoTrip
            /\ Static
            /\ UNCHANGED <<store_configs, bl_plugins>>

DeactivatePlugin ==
    \E name \in Names :
        LET r == deactivate_plugin(Live, name)
        IN  /\ SetLive(r.st)
            /\ last' = Last("deactivate_plugin", name, r.status)
            /\ attempts' = <<>>
            /\ pre' = Observed
            /\ trip' = IF /\ trip.op = "activate_plugin"
                          /\ trip.name = name
                          /\ r.status = "Plugin deactivated"
                       THEN [trip EXCEPT !.op = "activate_deactivate"]
                       ELSE NoTrip
            /\ Static
            /\ UNCHANGED <<store_configs, bl_plugins>>

DeactivateAllPlugins ==
    LET r == deactivate_all_plugins(Live)
    IN  /\ SetLive(r.st)
        /\ last' = Last("deactivate_all_plugins", None,
                        IF r.raised THEN "raised" ELSE "None")
        /\ attempts' = <<>>
        /\ pre' = Observed
        /\ trip' = NoTrip
        /\ Static
        /\ UNCHANGED <<store_configs, bl_plugins>>

ReloadPluginByName ==
    \E name \in Names :
        LET r == reload_plugin_by_name(Live, name)
        IN  /\ SetLive(r.st)
            /\ last' = Last("reload_plugin_by_name", name, r.status)
            /\ attempts' = <<>>
            /\ pre' = Observed
            /\ trip' = NoTrip
            /\ Static
            /\ UNCHANGED <<store_configs, bl_plugins>>

ActivateNonStartedPlugins ==
    LET r == activate_non_started_plugins(Live)
    IN  /\ SetLive(r.st)
        /\ last' = [Last("activate_non_started_plugins", None, "errors")
                        EXCEPT !.errors = r.errors]
        /\ attempts' = r.attempts
        /\ pre' = Observed
        /\ trip' = NoTrip
        /\ Static
        /\ UNCHANGED <<store_configs, bl_plugins>>

BlacklistPlugin ==
    \E name \in Names :
        LET r == blacklist_plugin(get_blacklisted_plugin, name)
        IN  /\ bl_plugins' = r.bl
            /\ last' = Last("blacklist_plugin", name, r.status)
            /\ attempts' = <<>>
            /\ pre' = Observed
            /\ trip' = [op |-> "blacklist_plugin", name |-> name, before |-> Observed]
            /\ Static
            /\ UNCHANGED <<is_activated, activated, config, template_path, routes,
                           store_configs>>

UnblacklistPlugin ==
    \E name \in Names :
        LET r == unblacklist_plugin(get_blacklisted_plugin, name)
        IN  /\ bl_plugins' = r.bl
            /\ last' = Last("unblacklist_plugin", name, r.status)
            /\ attempts' = <<>>
            /\ pre' = Observed
            /\ trip' = IF trip.op = "blacklist_plugin" /\ trip.name = name
                       THEN [trip EXCEPT !.op = "blacklist_unblacklist"]
                       ELSE NoTrip
            /\ Static
            /\ UNCHANGED <<is_activated, activated, config, template_path, routes,
                           store_configs>>

SetPluginConfiguration ==
    \E name \in PluginNames, obj \in ConfigValues :
        /\ store_configs' = set_plugin_configuration(store_configs, name, obj)
        /\ last' = Last("set_plugin_configuration", name, "None")
        /\ attempts' = <<>>
        /\ pre' = Observed
        /\ trip' = NoTrip
        /\ Static
        /\ UNCHANGED <<is_activated, activated, config, template_path, routes,
                       bl_plugins>>

\* -------------------------------------------------- scans and repositories

\* What check_dependencies returns: None, or a message and the missing
\* packages.
NoProblem == [none |-> TRUE, message |-> [kind |-> "none", path |-> None, packages |-> <<>>],
              missing |-> <<>>]
Problem(kind, path, packages) ==
    [none |-> FALSE, message |-> [kind |-> kind, path |-> path, packages |-> packages],
     missing |-> packages]

\* pkg_resources.get_distribution raises for a line that names no installed
\* distribution; the empty line names none.
get_distribution(stripped) == stripped \in installed

\* Lines 58-85.
check_dependencies(path) ==
    IF ~setuptools
    THEN [Problem("setuptools", None, <<>>) EXCEPT !.missing = <<>>]
    ELSE IF ~requirements[path].isfile
    THEN NoProblem
    ELSE LET missing_pkg == SelectSeq(requirements[path].lines,
                                      LAMBDA stripped : ~get_distribution(stripped))
         IN  IF missing_pkg # <<>>
             THEN Problem("dependencies", path, missing_pkg)
             ELSE NoProblem

\* utils.find_roots_with_extra: the core plugins and, when one is
\* configured, the extra plugin directory.
find_roots_with_extra(base, extra) ==
    <<base>> \o (IF extra = None THEN <<>> ELSE <<extra>>)

RECURSIVE AddToSysPath_unchecked(_, _)
\* AddToSysPath without the test of line 246.
AddToSysPath_unchecked(sp, paths) ==
    IF paths = <<>> THEN sp
    ELSE AddToSysPath_unchecked(Append(sp, Head(paths)), Tail(paths))

RECURSIVE AddToSysPath(_, _)
\* Lines 245-247.
AddToSysPath(sp, paths) ==
    IF paths = <<>> THEN sp
    ELSE AddToSysPath(IF Head(paths) \notin Range(sp) THEN Append(sp, Head(paths)) ELSE sp,
                      Tail(paths))

RECURSIVE ErrorsOf(_)
\* Line 261: the messages of the results that are not None, in order.
ErrorsOf(results) ==
    IF results = <<>> THEN <<>>
    ELSE (IF Head(results).none THEN <<>> ELSE <<Head(results).message>>)
         \o ErrorsOf(Tail(results))

\* The candidates locatePlugins and loadPlugins find: the places that exist,
\* dirs being the directories under plugin_dir.
Candidates(dirs, places) ==
    {d \in Range(places) : d \in {"core", "extra"} \cup dirs}

\* Lines 242-275.  installs are the packages install_package is called for.
update_plugin_places(dirs, path_list, extra_plugin_dir, autoinstall_deps) ==
    LET builtins == find_roots_with_extra("core", extra_plugin_dir)
        paths == builtins \o path_list
        dependencies_result == [i \in DOMAIN paths |-> check_dependencies(paths[i])]
        deps_to_install ==
            IF autoinstall_deps
            THEN UNION {Range(dependencies_result[i].missing) :
                            i \in {j \in DOMAIN paths : ~dependencies_result[j].none}}
            ELSE {}
    IN  [path_list |-> path_list, extra |-> extra_plugin_dir,
         autoinstall |-> autoinstall_deps,
         paths |-> paths,
         before |-> sys_path,
         sys_path |-> AddToSysPath(sys_path, paths),
         results |-> dependencies_result,
         installs |-> {dep \in deps_to_install : dep # BlankLine},
         errors |-> IF autoinstall_deps THEN <<>> ELSE ErrorsOf(dependencies_result),
         places |-> builtins \o path_list,
         all_candidates |-> Candidates(dirs, builtins \o path_list)]

\* Lines 293-294.
get_installed_plugin_repos == repos

\* Lines 296-302.
add_plugin_repo(name, url) == (name :> url) @@ get_installed_plugin_repos

\* Lines 342-347: the scan of the core, the extra directory and one
\* directory per recorded repository.
update_dynamic_plugins(dirs, rp) ==
    update_plugin_places(dirs, SelectSeq(RepoOrder, LAMBDA d : d \in DOMAIN rp),
                         bot_config.BOT_EXTRA_PLUGIN_DIR, bot_config.AUTOINSTALL_DEPS)

\* repos.KNOWN_PUBLIC_REPOS: alias -> URL.
KNOWN_PUBLIC_REPOS == [r \in Aliases |-> Url("a", "foo", ".git")]

\* utils.human_name_for_git_url: the last part of the URL without ".git".
human_name_for_git_url(url) == url.last

\* No scan was run.
NoScan == [path_list |-> <<>>, extra |-> None, autoinstall |-> FALSE, paths |-> <<>>,
           before |-> <<>>, sys_path |-> <<>>, results |-> <<>>, installs |-> {},
           errors |-> <<>>, places |-> <<>>, all_candidates |-> {}]

\* git clone into human_name under plugin_dir: git refuses a directory
\* that holds something already; otherwise its exit status is exit, and the
\* directory is there when it is 0.
git_clone(dirs, human_name, exit) ==
    IF human_name \in dirs
    THEN [wait |-> 128, dirs |-> dirs]
    ELSE [wait |-> exit, dirs |-> IF exit = 0 THEN dirs \cup {human_name} ELSE dirs]

\* What install_repo did: what it returned (or that it raised), whether the
\* clone subprocess ran, and the directories, the registry and the scan it
\* leaves.
Installed(repo, ret, clone, dirs, rp, sc) ==
    [repo |-> repo, ret |-> ret, clone |-> clone, before |-> repos,
     plugin_dir |-> dirs, repos |-> rp, scan |-> sc]

\* install_repo with the repository recorded before the exit status of the
\* clone is looked at.
install_repo_recorded_before_wait(ref, git_path, exit) ==
    LET repo == IF ref \in DOMAIN KNOWN_PUBLIC_REPOS THEN KNOWN_PUBLIC_REPOS[ref] ELSE ref
    IN  IF ~git_path
        THEN Installed(ref, "git command not found", FALSE, plugin_dir, repos, NoScan)
        ELSE IF repo.ending = "tar.gz"
        THEN Installed(ref, "raised NameError", FALSE, plugin_dir, repos, NoScan)
        ELSE LET human_name == human_name_for_git_url(repo)
                 p == git_clone(plugin_dir, human_name, exit)
                 rp == add_plugin_repo(human_name, repo)
             IN  IF p.wait # 0
                 THEN Installed(ref, "Could not load this plugin", TRUE, p.dirs, rp, NoScan)
                 ELSE Installed(ref, "errors", TRUE, p.dirs, rp,
                                update_dynamic_plugins(p.dirs, rp))

\* Lines 388-410.  git_path tells whether which('git') found git, and
\* exit is the exit status of the clone subprocess when git runs it.
\* Line 398 raises NameError: TarFile and urlopen are not imported.
install_repo(ref, git_path, exit) ==
    LET repo == IF ref \in DOMAIN KNOWN_PUBLIC_REPOS THEN KNOWN_PUBLIC_REPOS[ref] ELSE ref
    IN  IF ~git_path
        THEN Installed(ref, "git command not found", FALSE, plugin_dir, repos, NoScan)
        ELSE IF repo.ending = "tar.gz"
        THEN Installed(ref, "raised NameError", FALSE, plugin_dir, repos, NoScan)
        ELSE LET human_name == human_name_for_git_url(repo)
                 p == git_clone(plugin_dir, human_name, exit)
             IN  IF p.wait # 0
                 THEN Installed(ref, "Could not load this plugin", TRUE, p.dirs, repos,
                                NoScan)
                 ELSE LET rp == add_plugin_repo(human_name, repo)
                      IN  Installed(ref, "errors", TRUE, p.dirs, rp,
                                    update_dynamic_plugins(p.dirs, rp))

\* A registry without repositories.
NoRepos == [name \in {} |-> Url("", "", "")]

\* No call of install_repo was made.
NoInstall == [repo |-> Url("", "", ""), ret |-> "none", clone |-> FALSE,
              before |-> NoRepos, plugin_dir |-> {}, repos |-> NoRepos, scan |-> NoScan]

\* The path_list arguments of update_plugin_places: directories, repeated or
\* not, the extra directory among them.
\* The callers of the store's operations: the host dispatches commands from
\* several threads, and nothing in lines 305-339 takes a lock.
Threads == {"t1", "t2"}

\* A thread outside every operation.
Idle == [pc |-> "idle", op |-> "none", name |-> None, obj |-> None, l |-> <<>>,
         configs |-> [p \in PluginNames |-> None], status |-> "none"]

\* The calls a thread makes.
Calls ==
    [op : {"blacklist_plugin", "unblacklist_plugin"}, name : PluginNames, obj : {None}]
    \cup [op : {"set_plugin_configuration"}, name : PluginNames, obj : ConfigValues]

\* A thread enters blacklist_plugin, unblacklist_plugin or
\* set_plugin_configuration.
Call(t) ==
    /\ threads[t].pc = "idle"
    /\ \E c \in Calls :
           threads' = [threads EXCEPT
                          ![t] = [Idle EXCEPT
                                     !.pc = IF c.op = "set_plugin_configuration"
                                            THEN "read" ELSE "check",
                                     !.op = c.op, !.name = c.name, !.obj = c.obj]]
    /\ UNCHANGED <<store_configs, bl_plugins>>

\* Lines 312-314 and 320-322: is_plugin_blacklisted reads the store.
CheckBlacklisted(t) ==
    LET th == threads[t]
    IN  /\ th.pc = "check"
        /\ threads' = [threads EXCEPT ![t] =
               IF th.op = "blacklist_plugin" /\ is_plugin_blacklisted(th.name)
               THEN [th EXCEPT !.pc = "returned",
                               !.status = "Plugin is already blacklisted"]
               ELSE IF th.op = "unblacklist_plugin" /\ ~is_plugin_blacklisted(th.name)
               THEN [th EXCEPT !.pc = "returned",
                               !.status = "Plugin is not blacklisted"]
               ELSE [th EXCEPT !.pc = "read"]]
        /\ UNCHANGED <<store_configs, bl_plugins>>

\* Lines 315, 323 and 337: the thread gets its own copy of the stored value.
ReadStore(t) ==
    LET th == threads[t]
    IN  /\ th.pc = "read"
        /\ threads' = [threads EXCEPT ![t] =
               IF th.op = "set_plugin_configuration"
               THEN [th EXCEPT !.pc = "write", !.configs = store_configs]
               ELSE [th EXCEPT !.pc = "write", !.l = get_blacklisted_plugin]]
        /\ UNCHANGED <<store_configs, bl_plugins>>

\* Lines 315, 324-325 and 338-339: the copy is changed and stored; l.remove
\* raises ValueError when the name is not in the copy.
WriteStore(t) ==
    LET th == threads[t]
    IN  /\ th.pc = "write"
        /\ IF th.op = "set_plugin_configuration"
           THEN /\ store_configs' = set_plugin_configuration(th.configs, th.name, th.obj)
                /\ threads' = [threads EXCEPT ![t] =
                                   [th EXCEPT !.pc = "returned", !.status = "None"]]
                /\ UNCHANGED bl_plugins
           ELSE IF th.op = "blacklist_plugin"
           THEN /\ bl_plugins' = th.l \o <<th.name>>
                /\ threads' = [threads EXCEPT ![t] =
                                   [th EXCEPT !.pc = "returned",
                                              !.status = "Plugin is now blacklisted"]]
                /\ UNCHANGED store_configs
           ELSE IF th.name \notin Range(th.l)
           THEN /\ threads' = [threads EXCEPT ![t] =
                                   [th EXCEPT !.pc = "returned", !.status = "raised"]]
                /\ UNCHANGED <<store_configs, bl_plugins>>
           ELSE /\ bl_plugins' = unblacklist_plugin(th.l, th.name).bl
                /\ threads' = [threads EXCEPT ![t] =
                                   [th EXCEPT !.pc = "returned",
                                              !.status = "Plugin removed from blacklist"]]
                /\ UNCHANGED store_configs

\* What a step of a thread leaves alone.
ThreadStatic ==
    /\ UNCHANGED <<all_plugins, details, hooks, PY3, VERSION, is_activated, activated,
                   config, template_path, routes, last, attempts, pre, trip>>
    /\ UNCHANGED repoVars

PathLists == UNION {[1..n -> ScanDirs \ {"core"}] : n \in 0..MaxPathList}

\* Lines 44-55: what install_package leaves installed, pip telling whether
\* the installations succeed.
Pip(installs) == IF installs = {} THEN {FALSE} ELSE BOOLEAN
install_package(installs, pip) == IF pip THEN installed \cup installs ELSE installed

UpdatePluginPlaces ==
    \E path_list \in PathLists, extra_plugin_dir \in {None, "extra"},
       autoinstall_deps \in BOOLEAN :
        LET r == update_plugin_places(plugin_dir, path_list, extra_plugin_dir,
                                      autoinstall_deps)
        IN  /\ sys_path' = r.sys_path
            /\ \E pip \in Pip(r.installs) : installed' = install_package(r.installs, pip)
            /\ scan' = r
            /\ install' = NoInstall
            /\ UNCHANGED <<repos, plugin_dir, requirements, setuptools, bot_config>>
            /\ UNCHANGED lifeVars

UpdateDynamicPlugins ==
    LET r == update_dynamic_plugins(plugin_dir, repos)
    IN  /\ sys_path' = r.sys_path
        /\ \E pip \in Pip(r.installs) : installed' = install_package(r.installs, pip)
        /\ scan' = r
        /\ install' = NoInstall
        /\ UNCHANGED <<repos, plugin_dir, requirements, setuptools, bot_config>>
        /\ UNCHANGED lifeVars

InstallRepo ==
    \E ref \in RepoRefs, git_path \in BOOLEAN, exit \in {0, 1} :
        LET r == install_repo(ref, git_path, exit)
        IN  /\ install' = r
            /\ repos' = r.repos
            /\ plugin_dir' = r.plugin_dir
            /\ IF r.ret = "errors"
               THEN /\ sys_path' = r.scan.sys_path
                    /\ \E pip \in Pip(r.scan.installs) :
                           installed' = install_package(r.scan.installs, pip)
                    /\ scan' = r.scan
               ELSE UNCHANGED <<sys_path, installed, scan>>
            /\ UNCHANGED <<requirements, setuptools, bot_config>>
            /\ UNCHANGED lifeVars

\* --------------------------------------------------------- initial states

Descriptor(python, min, max, template) ==
    [python |-> python, min |-> min, max |-> max, template |-> template]

\* "2.10", "2.2" and "10.2" as version strings.
V_2_10 == <<<<2>>, <<1, 0>>>>
V_2_2 == <<<<2>>, <<2>>>>
V_10_2 == <<<<1, 0>>, <<2>>>>

\* A descriptor that passes every gate under both interpreters.
Sound == Descriptor("2+", NoVersion, NoVersion, TRUE)
\* Hooks that never raise.
Benign == [fault |-> "none", deactivate |-> "ok"]

\* The descriptors a scan may have found: some that pass every gate, and
\* one per way of failing one.
Descriptors ==
    {Sound,
     Descriptor("2+", V_2_2, V_10_2, FALSE),
     Descriptor("2", NoVersion, NoVersion, TRUE),
     Descriptor("3", NoVersion, NoVersion, TRUE),
     Descriptor("NoSection", NoVersion, NoVersion, TRUE),
     Descriptor("1", NoVersion, NoVersion, TRUE),
     Descriptor("2+", V_10_2, NoVersion, TRUE),
     Descriptor("2+", NoVersion, V_2_2, TRUE)}

\* The state after _init_plugin_manager and a first scan: nothing is
\* activated, configured, registered or routed yet.
InitLive ==
    /\ all_plugins = <<"p1", "p2">>
    /\ is_activated = [p \in PluginNames |-> FALSE]
    /\ activated = [p \in PluginNames |-> "unset"]
    /\ config = [p \in PluginNames |-> None]
    /\ template_path = <<>>
    /\ routes = {}
    /\ last = Last("init", None, "None")
    /\ attempts = <<>>
    /\ pre = Observed
    /\ trip = NoTrip
    /\ threads = [t \in Threads |-> Idle]

\* No repository is recorded and no scan or installation was asked for.
InitRepos ==
    /\ repos = NoRepos
    /\ plugin_dir = {}
    /\ sys_path = <<"lib">>
    /\ requirements = [d \in ScanDirs |-> NoManifest]
    /\ installed = {}
    /\ setuptools = TRUE
    /\ bot_config = [BOT_EXTRA_PLUGIN_DIR |-> None, AUTOINSTALL_DEPS |-> TRUE]
    /\ scan = NoScan
    /\ install = NoInstall

\* Two sound plugins with benign hooks, and an empty store.
InitPlugins ==
    /\ PY3 = TRUE
    /\ VERSION = V_2_10
    /\ details = [p \in PluginNames |-> Sound]
    /\ hooks = [p \in PluginNames |-> Benign]
    /\ store_configs = [p \in PluginNames |-> None]
    /\ bl_plugins = <<>>
    /\ InitLive

\* The life cycle: the first plugin is any plugin, the second a sound one
\* whose hooks may fail too; the store holds what earlier runs persisted.
Init ==
    /\ PY3 \in BOOLEAN
    /\ VERSION = V_2_10
    /\ details \in [PluginNames -> Descriptors]
    /\ hooks \in [PluginNames -> Hooks]
    /\ \/ /\ hooks["p1"] = Benign
          /\ store_configs \in [PluginNames -> ConfigOpt]
          /\ store_configs["p2"] = None
          /\ bl_plugins \in {<<>>, <<"p1">>, <<"p2">>}
       \/ /\ details["p1"] = Sound
          /\ store_configs = [p \in PluginNames |-> None]
          /\ bl_plugins = <<>>
    /\ details["p2"] = Sound
    /\ hooks["p2"] \in {Benign, [fault |-> "activate", deactivate |-> "ok"]}
    /\ InitLive
    /\ InitRepos

Next ==
    \/ ActivatePluginWithVersionCheck
    \/ ActivatePlugin
    \/ DeactivatePlugin
    \/ DeactivateAllPlugins
    \/ ReloadPluginByName
    \/ ActivateNonStartedPlugins

Spec == Init /\ [][Next]_vars

\* The version gate: one plugin with every declared minimal and maximal
\* version, under every host version.
InitVersions ==
    /\ PY3 = TRUE
    /\ VERSION \in VersionStrings
    /\ \E min \in VersionOpt, max \in VersionOpt :
           details = [p \in PluginNames |->
                         IF p = "p1" THEN Descriptor("2+", min, max, TRUE) ELSE Sound]
    /\ hooks = [p \in PluginNames |-> Benign]
    /\ store_configs = [p \in PluginNames |-> None]
    /\ bl_plugins = <<>>
    /\ InitLive
    /\ InitRepos

NextVersions ==
    \/ ActivatePlugin
    \/ DeactivatePlugin
    \/ ActivateNonStartedPlugins

SpecVersions == InitVersions /\ [][NextVersions]_vars

\* The persisted store: blacklisting and configuration writes between the
\* activations and deactivations of two sound plugins.
InitStore ==
    /\ InitPlugins
    /\ InitRepos

NextStore ==
    \/ BlacklistPlugin
    \/ UnblacklistPlugin
    \/ SetPluginConfiguration
    \/ ActivatePlugin
    \/ DeactivatePlugin
    \/ ActivateNonStartedPlugins

SpecStore == InitStore /\ [][NextStore]_vars

\* The life cycle of two sound plugins through the operations that register
\* and unregister template paths.
NextPairs ==
    \/ ActivatePlugin
    \/ ActivateNonStartedPlugins
    \/ DeactivatePlugin
    \/ DeactivateAllPlugins
    \/ ReloadPluginByName

SpecPairs == InitStore /\ [][NextPairs]_vars

\* Scans: the directories' manifests, the installed distributions and the
\* module search path are what the host holds when the manager starts.
InitScan ==
    /\ InitPlugins
    /\ repos = "foo" :> Url("a", "foo", ".git")
    /\ plugin_dir = DOMAIN repos
    /\ sys_path = <<"lib", "foo">>
    /\ \E m \in {<<NoManifest, Manifest(<<"pa", "pb">>), NoManifest>>,
                  <<Manifest(<<"pa">>), Manifest(<<"pa", BlankLine>>),
                    Manifest(<<"pb">>)>>} :
           requirements = [d \in ScanDirs |->
                              IF d = "extra" THEN m[1]
                              ELSE IF d = "foo" THEN m[2]
                              ELSE IF d = "bar" THEN m[3] ELSE NoManifest]
    /\ installed \in {{}, {"pa"}}
    /\ setuptools \in BOOLEAN
    /\ bot_config = [BOT_EXTRA_PLUGIN_DIR |-> "extra", AUTOINSTALL_DEPS |-> FALSE]
    /\ scan = NoScan
    /\ install = NoInstall

NextScan ==
    \/ UpdatePluginPlaces
    \/ UpdateDynamicPlugins

SpecScan == InitScan /\ [][NextScan]_vars

\* Installations: the registry an earlier run persisted, and the
\* directories of its repositories that are still there.
InitInstall ==
    /\ InitPlugins
    /\ repos \in {NoRepos, "foo" :> Url("a", "foo", ".git")}
    /\ plugin_dir \in SUBSET (DOMAIN repos)
    /\ sys_path = <<"lib">>
    /\ requirements = [d \in ScanDirs |->
                           IF d = "foo" THEN Manifest(<<"pa">>) ELSE NoManifest]
    /\ installed = {}
    /\ setuptools = TRUE
    /\ bot_config \in [BOT_EXTRA_PLUGIN_DIR : {None, "extra"}, AUTOINSTALL_DEPS : BOOLEAN]
    /\ scan = NoScan
    /\ install = NoInstall

NextInstall ==
    \/ InstallRepo
    \/ UpdateDynamicPlugins

SpecInstall == InitInstall /\ [][NextInstall]_vars

\* Two threads, each making one call on the store, over what an earlier run
\* persisted.
InitThreads ==
    /\ PY3 = TRUE
    /\ VERSION = V_2_10
    /\ details = [p \in PluginNames |-> Sound]
    /\ hooks = [p \in PluginNames |-> Benign]
    /\ store_configs = [p \in PluginNames |-> None]
    /\ bl_plugins \in {<<>>, <<"p1">>}
    /\ InitLive
    /\ InitRepos

NextThreads ==
    \E t \in Threads :
        \/ Call(t) /\ ThreadStatic
        \/ CheckBlacklisted(t) /\ ThreadStatic
        \/ ReadStore(t) /\ ThreadStatic
        \/ WriteStore(t) /\ ThreadStatic

SpecThreads == InitThreads /\ [][NextThreads]_vars

\* ----------------------------------------------------------------- claims

\* How often a path is registered.
Count(tp, path) == Cardinality({i \in DOMAIN tp : tp[i] = path})

\* The attempts of the last operation.
Attempts == {attempts[i] : i \in DOMAIN attempts}

\* The steps an attempt ran, by name.
Ran(a, step) == \E i \in DOMAIN a.steps : a.steps[i].step = step
Failed(a, step) == \E i \in DOMAIN a.steps : a.steps[i] = Step(step, FALSE)

\* The last operation left the three registrations of a plugin as they were.
Untouched(name) ==
    /\ is_activated[name] = pre.is_activated[name]
    /\ Count(template_path, name) = Count(pre.template_path, name)
    /\ (name \in routes) = (name \in pre.routes)

\* C1: an activation attempt that raises leaves the plugin not activated,
\* its template path not registered and the plugin not routed, each as
\* before the attempt, and the error that reaches the caller is the one
\* that was first raised (a configuration error wrapped with its message
\* counts as that error).
C1_FailedActivationLeavesNothing ==
    \A a \in Attempts :
        a.ret = "raised" =>
            /\ Untouched(a.name)
            /\ ~pre.is_activated[a.name] => ~is_activated[a.name]
            /\ a.exc.msg = a.cause.msg

\* C2: a successful activate_plugin followed by a successful
\* deactivate_plugin of the same plugin restores its template-path
\* registration, its route registration and its activated flag.
C2_ActivateDeactivateRoundTrip ==
    trip.op = "activate_deactivate" =>
        /\ is_activated[trip.name] = trip.before.is_activated[trip.name]
        /\ Count(template_path, trip.name) = Count(trip.before.template_path, trip.name)
        /\ (trip.name \in routes) = (trip.name \in trip.before.routes)

\* The gates of an activation, in their order.
Gates == <<"python", "version", "configure", "activatePluginByName", "route">>

\* An attempt passed every gate, each before the next.
PassedAllGates(a) ==
    \E f \in [1..Len(Gates) -> DOMAIN a.steps] :
        /\ \A i \in 1..Len(Gates) : a.steps[f[i]] = Step(Gates[i], TRUE)
        /\ \A i \in 1..(Len(Gates) - 1) : f[i] < f[i + 1]

\* C3: a plugin an operation made activated passed, in that operation's
\* attempt, the compatibility gate, the configuration step, the framework's
\* activation hook and route, in this order.
C3_ActivatedOnlyThroughGates ==
    \A p \in PluginNames :
        (is_activated[p] /\ ~pre.is_activated[p]) =>
            \E a \in Attempts : a.name = p /\ PassedAllGates(a)

\* C4: activate_plugin on an active plugin returns "Plugin already in active
\* list", runs no step of the activation, does not call callback_connect
\* and changes nothing.
C4_AlreadyActiveIsNoOp ==
    (/\ last.op = "activate_plugin"
     /\ last.name \in PluginNames
     /\ pre.is_activated[last.name]) =>
        /\ last.status = "Plugin already in active list"
        /\ attempts = <<>>
        /\ ~last.connect
        /\ Observed = pre

C4_Witness ==
    /\ last.op = "activate_plugin"
    /\ last.name \in PluginNames
    /\ pre.is_activated[last.name]
    /\ last.status = "Plugin already in active list"

\* C5: activating a name no scan discovered reports not-found
\* (activate_plugin returns "I don't know this plugin",
\* activate_plugin_with_version_check returns None), runs no step and
\* changes nothing.
C5_UnknownNameChangesNothing ==
    (/\ last.op \in {"activate_plugin", "activate_plugin_with_version_check"}
     /\ last.name \notin Range(all_plugins)) =>
        /\ last.status = IF last.op = "activate_plugin"
                         THEN "I don't know this plugin" ELSE "None"
        /\ \A a \in Attempts : a.steps = <<>> /\ a.ret = "None"
        /\ ~last.connect
        /\ Observed = pre

C5_Witness ==
    /\ last.op = "activate_plugin"
    /\ last.name \notin Range(all_plugins)
    /\ last.status = "I don't know this plugin"
    /\ \E p \in PluginNames : is_activated[p]

\* a > b, component by component, on two arrays of the same length.
Above(a, b) ==
    \E i \in DOMAIN a :
        /\ i \in DOMAIN b
        /\ a[i] > b[i]
        /\ \A j \in 1..(i - 1) : a[j] = b[j]

MinViolated(name) ==
    /\ details[name].min # NoVersion
    /\ Above(version2array(details[name].min), version2array(VERSION))

MaxViolated(name) ==
    /\ details[name].max # NoVersion
    /\ Above(version2array(VERSION), version2array(details[name].max))

\* An attempt reached the version gate.
ReachedVersionGate(a) == Ran(a, "version")

\* C6: an attempt that reaches the version gate raises
\* IncompatiblePluginException exactly when the declared minimal version is
\* above the host's or the declared maximal version below it; the message
\* names a bound that is violated, and the rejected plugin is not
\* configured, not template-registered and not activated by the attempt.
C6_VersionGateRejectsExactly ==
    \A a \in Attempts :
        ReachedVersionGate(a) =>
            /\ (a.exc.type = "IncompatiblePluginException")
                   <=> (MinViolated(a.name) \/ MaxViolated(a.name))
            /\ a.exc.type = "IncompatiblePluginException" =>
                   /\ a.ret = "raised"
                   /\ a.exc.msg = "minimal" => MinViolated(a.name)
                   /\ a.exc.msg = "maximal" => MaxViolated(a.name)
                   /\ a.exc.msg \in {"minimal", "maximal"}
                   /\ ~Ran(a, "check_configuration") /\ ~Ran(a, "configure")
                   /\ ~Ran(a, "add_plugin_templates_path")
                   /\ ~Ran(a, "activatePluginByName")
                   /\ config[a.name] = pre.config[a.name]
                   /\ Untouched(a.name)
                   /\ ~is_activated[a.name]

\* The maximal version alone rejects: the minimal one is declared and met.
C6_Witness ==
    \E a \in Attempts :
        /\ a.exc = Exc("IncompatiblePluginException", "maximal")
        /\ details[a.name].min # NoVersion
        /\ ~MinViolated(a.name)
        /\ MaxViolated(a.name)

\* The declared interpreter excludes the running one.
InterpreterExcluded(name) ==
    \/ details[name].python \in {"2", "NoSection"} /\ PY3
    \/ details[name].python = "3" /\ ~PY3

\* C7: when the declared interpreter excludes the running one, the attempt
\* raises IncompatiblePluginException and the plugin stays not activated.
C7_InterpreterMismatchRaises ==
    \A a \in Attempts :
        (a.name \in Range(all_plugins) /\ InterpreterExcluded(a.name)) =>
            /\ a.ret = "raised"
            /\ a.exc.type = "IncompatiblePluginException"
            /\ ~is_activated[a.name]

\* The configuration step of an attempt failed.
ConfigurationFailed(a) == Failed(a, "check_configuration") \/ Failed(a, "configure")

\* C8: when check_configuration or the configure hook fails, the attempt
\* raises PluginConfigurationException with the message of the failure,
\* the plugin's configuration is None, no template path is registered, the
\* activation hook and route are not called, and the plugin is not
\* activated by the attempt.
C8_ConfigurationFailureClears ==
    \A a \in Attempts :
        ConfigurationFailed(a) =>
            /\ a.ret = "raised"
            /\ a.cause # NoExc
            /\ a.exc = Exc("PluginConfigurationException", a.cause.msg)
            /\ config[a.name] = None
            /\ ~Ran(a, "add_plugin_templates_path")
            /\ ~Ran(a, "activatePluginByName")
            /\ ~Ran(a, "route")
            /\ Untouched(a.name)
            /\ ~pre.is_activated[a.name] => ~is_activated[a.name]

\* A plugin that was configured before fails its configuration step.
C8_Witness ==
    \E a \in Attempts :
        /\ ConfigurationFailed(a)
        /\ pre.config[a.name] # None
        /\ config[a.name] = None

NoDuplicates(seq) == \A i, j \in DOMAIN seq : seq[i] = seq[j] => i = j

\* C9 as stated: for any blacklist and any name, blacklist_plugin(name)
\* followed by unblacklist_plugin(name) restores the membership.
C9_RoundTripForAnyName ==
    trip.op = "blacklist_unblacklist" =>
        Range(bl_plugins) = Range(trip.before.bl_plugins)

\* C9, amended: for any blacklist and any name not in it, blacklist_plugin
\* followed by unblacklist_plugin restores the blacklist; blacklist_plugin
\* on a blacklisted name and unblacklist_plugin on a name not blacklisted
\* return their "already" / "not blacklisted" status and leave the
\* blacklist unchanged; no name occurs twice.
C9_RoundTripForNewName ==
    /\ (trip.op = "blacklist_unblacklist"
        /\ trip.name \notin Range(trip.before.bl_plugins)) =>
            /\ Range(bl_plugins) = Range(trip.before.bl_plugins)
            /\ bl_plugins = trip.before.bl_plugins
    /\ (last.op = "blacklist_plugin" /\ last.name \in Range(pre.bl_plugins)) =>
            /\ last.status = "Plugin is already blacklisted"
            /\ bl_plugins = pre.bl_plugins
    /\ (last.op = "unblacklist_plugin" /\ last.name \notin Range(pre.bl_plugins)) =>
            /\ last.status = "Plugin is not blacklisted"
            /\ bl_plugins = pre.bl_plugins
    /\ NoDuplicates(bl_plugins)

C9_Witness ==
    /\ trip.op = "blacklist_unblacklist"
    /\ trip.name \notin Range(trip.before.bl_plugins)
    /\ trip.before.bl_plugins # <<>>
    /\ last.status = "Plugin removed from blacklist"

\* Nothing can make the activation of this plugin fail.
Activatable(name) ==
    /\ name \in Range(all_plugins)
    /\ PythonGate(name)
    /\ ~MinViolated(name) /\ ~MaxViolated(name)
    /\ ~(details[name].template /\ store_configs[name] = "bad")
    /\ hooks[name].fault = "none"

\* C10: activate_non_started_plugins runs no step for a blacklisted plugin,
\* does not activate it and reports a notice for it; activate_plugin on a
\* blacklisted plugin that nothing else stops activates it; blacklisted
\* plugins stay in get_all_plugin_names; neither operation changes the
\* blacklist.
C10_BlacklistBlocksOnlyAutomatic ==
    /\ last.op = "activate_non_started_plugins" =>
           /\ bl_plugins = pre.bl_plugins
           /\ \A p \in Range(all_plugins) :
                  p \in Range(bl_plugins) =>
                      /\ \A a \in Attempts : a.name # p
                      /\ is_activated[p] = pre.is_activated[p]
                      /\ Notice(p) \in Range(last.errors)
    /\ last.op = "activate_plugin" =>
           /\ bl_plugins = pre.bl_plugins
           /\ (/\ last.name \in Range(bl_plugins)
               /\ Activatable(last.name)
               /\ ~pre.is_activated[last.name]) =>
                   /\ last.status = "Plugin activated"
                   /\ is_activated[last.name]
    /\ \A p \in Range(bl_plugins) \cap PluginNames :
           p \in Range(get_all_plugin_names)

\* One plugin is skipped with a notice while the other is activated.
C10_Witness ==
    /\ last.op = "activate_non_started_plugins"
    /\ \E p, q \in PluginNames :
           /\ p \in Range(bl_plugins)
           /\ ~is_activated[p]
           /\ Notice(p) \in Range(last.errors)
           /\ ~pre.is_activated[q]
           /\ is_activated[q]

\* The URL a reference stands for, and the name derived from it.
UrlOf(ref) == IF ref \in DOMAIN KNOWN_PUBLIC_REPOS THEN KNOWN_PUBLIC_REPOS[ref] ELSE ref
DerivedName(ref) == human_name_for_git_url(UrlOf(ref))

\* The last operation was a call of install_repo.
InstallCalled == install.ret # "none"

\* C11: an install_repo that fails because git is not found or because the
\* clone exits non-zero returns the matching error message, leaves the
\* registry as it was and runs no re-scan; the registry changes and the
\* re-scan runs only after the clone succeeded, and the repository is then
\* recorded under its derived name.
C11_FailedInstallLeavesRegistry ==
    InstallCalled =>
        /\ repos = install.repos
        /\ install.ret \in {"git command not found", "Could not load this plugin"} =>
               /\ install.repos = install.before
               /\ install.scan = NoScan
        /\ install.ret = "git command not found" => ~install.clone
        /\ (install.repos # install.before \/ install.scan # NoScan) =>
               /\ install.ret = "errors"
               /\ install.clone
               /\ DerivedName(install.repo) \in install.plugin_dir
        /\ install.ret = "errors" =>
               /\ DerivedName(install.repo) \in DOMAIN install.repos
               /\ install.repos[DerivedName(install.repo)] = UrlOf(install.repo)
               /\ install.scan # NoScan
               /\ scan = install.scan

C11_Witness ==
    /\ install.ret = "Could not load this plugin"
    /\ install.clone
    /\ install.before # NoRepos
    /\ DerivedName(install.repo) \notin DOMAIN install.before

\* C12: install_repo raises nothing: for a git URL as for a reference ending
\* in tar.gz, and whatever the fetch does, it returns an error message or
\* the result of the re-scan.
C12_InstallReturnsResult ==
    InstallCalled =>
        install.ret \in {"git command not found", "Could not load this plugin", "errors"}

\* C13: an install_repo whose derived name is already a key of the registry
\* is rejected before the clone subprocess or the extraction runs, and
\* leaves the registry's mapping as it was.
C13_DuplicateRejectedBeforeFetch ==
    (InstallCalled /\ DerivedName(install.repo) \in DOMAIN install.before) =>
        /\ ~install.clone
        /\ install.repos = install.before

\* A requirement of the manifest the host does not provide.
Unmet(path) ==
    SelectSeq(requirements[path].lines,
              LAMBDA line : line \in Packages /\ line \notin installed)

RECURSIVE UnmetEntries(_)
\* One entry per scanned path with an unmet requirement, naming the path and
\* its unmet packages.
UnmetEntries(paths) ==
    IF paths = <<>> THEN <<>>
    ELSE (IF requirements[Head(paths)].isfile /\ Unmet(Head(paths)) # <<>>
          THEN <<[kind |-> "dependencies", path |-> Head(paths),
                  packages |-> Unmet(Head(paths))]>>
          ELSE <<>>)
         \o UnmetEntries(Tail(paths))

\* C14: with auto-install disabled, and on a host where the dependency check
\* can look packages up, update_plugin_places installs nothing, sets the
\* plugin places and discovers the candidates, and its error list has
\* exactly one entry per scanned path with an unmet requirement, naming the
\* path and the unmet packages; a path without a manifest or with all its
\* requirements met has none.
C14_DisabledAutoinstallReportsUnmet ==
    (scan # NoScan /\ ~scan.autoinstall /\ setuptools) =>
        /\ scan.installs = {}
        /\ scan.places = scan.paths
        /\ scan.all_candidates = Candidates(plugin_dir, scan.paths)
        /\ scan.errors = UnmetEntries(scan.paths)

\* The store after the call of a thread, made alone on the store st.
Alone(st, th) ==
    IF th.op = "blacklist_plugin"
    THEN [st EXCEPT !.bl_plugins = blacklist_plugin(@, th.name).bl]
    ELSE IF th.op = "unblacklist_plugin"
    THEN [st EXCEPT !.bl_plugins = unblacklist_plugin(@, th.name).bl]
    ELSE [st EXCEPT !.store_configs = set_plugin_configuration(@, th.name, th.obj)]

\* Both threads returned, and the store is what one of the two serial orders
\* of their calls leaves.
SerialOutcome ==
    LET st == [bl_plugins |-> pre.bl_plugins, store_configs |-> pre.store_configs]
        now == [bl_plugins |-> bl_plugins, store_configs |-> store_configs]
    IN  \/ now = Alone(Alone(st, threads["t1"]), threads["t2"])
        \/ now = Alone(Alone(st, threads["t2"]), threads["t1"])

\* C15: when two threads have made their calls on the store and returned,
\* the store is what some serial order of the two calls leaves: no update
\* is lost (two blacklist_plugin calls leave both names blacklisted, two
\* set_plugin_configuration calls leave both entries stored).
C15_StoreOperationsSerialized ==
    (\A t \in Threads : threads[t].pc = "returned") => SerialOutcome

\* The operations the claims about template paths name.
PairedOps == {"activate_plugin", "activate_non_started_plugins", "deactivate_plugin",
              "deactivate_all_plugins", "reload_plugin_by_name"}

\* C16: after every completed operation among activate_plugin,
\* activate_non_started_plugins, deactivate_plugin, deactivate_all_plugins
\* and reload_plugin_by_name, a plugin's template path is registered if and
\* only if the plugin is activated.
C16_TemplatePathIffActivated ==
    (last.op \in PairedOps /\ last.status # "raised") =>
        \A p \in PluginNames : (Count(template_path, p) > 0) <=> is_activated[p]

\* C17: after every call of update_plugin_places, each directory of its
\* lists occurs exactly once in sys.path, and the entries sys.path held
\* before the call are where they were.
C17_ScannedDirectoriesOnceInSysPath ==
    scan # NoScan =>
        /\ sys_path = scan.sys_path
        /\ \A d \in Range(scan.paths) : Count(sys_path, d) = 1
        /\ Len(sys_path) >= Len(scan.before)
        /\ SubSeq(sys_path, 1, Len(scan.before)) = scan.before

C17_Witness ==
    /\ scan # NoScan
    /\ scan.extra = "extra"
    /\ scan.path_list = <<"extra", "bar">>
    /\ "extra" \in Range(scan.before)
    /\ "bar" \notin Range(scan.before)

\* The last operation called deactivate_plugin_by_name and the framework's
\* deactivation hook raised.
DeactivationHookRaised ==
    /\ last.op \in {"deactivate_plugin", "reload_plugin_by_name"}
    /\ last.name \in PluginNames
    /\ pre.is_activated[last.name]
    /\ last.status = "raised"

\* C18: when the deactivation hook raises in deactivate_plugin_by_name, the
\* plugin's template path is registered as often as before the call, and
\* the exception reaches the caller.
C18_FailedDeactivationRestoresPath ==
    DeactivationHookRaised =>
        Count(template_path, last.name) = Count(pre.template_path, last.name)

\* C19: activate_plugin returns "Plugin activated" and calls
\* callback_connect only when the plugin is activated on return; when its
\* attempt ends without activating the plugin the status is a failure.
C19_SuccessStatusOnlyWhenActivated ==
    last.op = "activate_plugin" =>
        /\ (last.status = "Plugin activated" \/ last.connect) =>
               /\ last.name \in PluginNames
               /\ is_activated[last.name]
        /\ \A a \in Attempts :
               ~is_activated[a.name] => last.status = "failed to start"

\* A plugin the returned text names in an error entry.
NamedInErrors(name) ==
    \E i \in DOMAIN last.errors : last.errors[i].name = name

\* C20: activate_non_started_plugins attempts every discovered plugin that
\* is neither blacklisted nor activated, with the plugin's persisted
\* configuration; no exception escapes the call; every plugin that is not
\* activated when it returns is named in the returned text.
C20_EveryNonStartedAttemptedOrNamed ==
    last.op = "activate_non_started_plugins" =>
        /\ last.status = "errors"
        /\ \A p \in PluginNames :
               /\ (~is_plugin_blacklisted(p) /\ ~pre.is_activated[p]) =>
                      \E a \in Attempts :
                          a.name = p /\ a.config = get_plugin_configuration(p)
               /\ ~is_activated[p] => NamedInErrors(p)

====
